---- MODULE Spec2Model ----
(***************************************************************************)
(* The LocalLibrary catalog: four collections (Author, Genre, Book,        *)
(* BookInstance) behind Express request handlers.  A request is started    *)
(* (its validator chain and the synchronous part of its handler run), then *)
(* each store operation it issued completes in a step of its own, running  *)
(* the callback that waits for it.                                         *)
(*                                                                         *)
(* A string is a sequence of one-character strings.  An identifier is a    *)
(* one-character string "1", "2", ...; identifiers that reach the store    *)
(* unvalidated (req.params.id, req.body.id) are well-formed ObjectIds.     *)
(***************************************************************************)
EXTENDS Integers, Sequences, FiniteSets, TLC

\* Number of identifiers each collection can generate.
MaxIds == 2

\* Number of documents saved in the store over a run, all collections together.
MaxDocs == 2

VARIABLES authors, genres, books, bookinstances, issued, env, reqs

vars == <<authors, genres, books, bookinstances, issued, env, reqs>>

store == <<authors, genres, books, bookinstances>>

(***************************************************************************)
(* Strings and the express-validator chains                                *)
(***************************************************************************)
Ids == {ToString(n) : n \in 1..MaxIds}

\* The strings that are well-formed ObjectIds; the store generates the first
\* MaxIds of them, the other one never resolves.
ObjectIds == Ids \cup {ToString(MaxIds + 1)}

\* The form value that carries identifier i.
IdStr(i) == <<i>>

\* A value that was not submitted (undefined).
Absent == <<"undefined">>

\* Mongoose's cast of a submitted value to an ObjectId; "" stands for a value
\* that does not cast (the path is then left unset and fails validation on
\* save), "null" for the cast of undefined, which is kept as it is.
castObjectId(v) ==
    IF v = Absent THEN "null"
    ELSE IF Len(v) = 1 /\ v[1] \in ObjectIds THEN v[1] ELSE ""

RECURSIVE ltrim(_)
ltrim(s) == IF s # <<>> /\ Head(s) = " " THEN ltrim(Tail(s)) ELSE s

RECURSIVE rtrim(_)
rtrim(s) == IF s # <<>> /\ s[Len(s)] = " " THEN rtrim(SubSeq(s, 1, Len(s) - 1)) ELSE s

trim(s) == rtrim(ltrim(s))

escapeChar(c) ==
    CASE c = "&" -> <<"&", "a", "m", "p", ";">>
      [] c = "<" -> <<"&", "l", "t", ";">>
      [] c = ">" -> <<"&", "g", "t", ";">>
      [] c = "/" -> <<"&", "#", "x", "2", "F", ";">>
      [] OTHER -> <<c>>

RECURSIVE escape(_)
escape(s) == IF s = <<>> THEN <<>> ELSE escapeChar(Head(s)) \o escape(Tail(s))

isLength(s, min) == Len(s) >= min

AlnumChars == {"a", "b", "c", "d", "e", "g", "l", "m", "p", "t", "x", "F", "0", "1", "2", "3", "4", "5"}

isAlphanumeric(s) == s # <<>> /\ \A i \in 1..Len(s) : s[i] \in AlnumChars

Err(param, msg) == [param |-> param, msg |-> msg]

ErrIf(bad, param, msg) == IF bad THEN <<Err(param, msg)>> ELSE <<>>

\* isISO8601: the calendar-date forms YYYY, YYYY-MM and YYYY-MM-DD.
Digits == {"0", "1", "2", "3", "4", "5"}

isISO8601(s) ==
    /\ Len(s) \in {4, 7, 10}
    /\ \A i \in 1..Len(s) : IF i \in {5, 8} THEN s[i] = "-" ELSE s[i] \in Digits

\* A Date is modelled by the text of its day; DateNull is null / no date.
DateNull == <<>>

toDate(s) == IF isISO8601(s) THEN s ELSE DateNull

\* body(field, msg).optional({ checkFalsy: true }).isISO8601().toDate(): a falsy
\* value skips the chain and is left as it is.
optionalDate(v, param, msg) ==
    IF v = <<>> THEN [value |-> v, errors |-> <<>>]
    ELSE [value |-> toDate(v), errors |-> ErrIf(~isISO8601(v), param, msg)]

\* body(field).trim().isLength({ min: 1 }).escape().withMessage(m1).isAlphanumeric().withMessage(m2)
nameChain(v, param, m1, m2) ==
    LET t == trim(v)
        e == escape(t)
    IN [value |-> e,
        errors |-> ErrIf(~isLength(t, 1), param, m1) \o ErrIf(~isAlphanumeric(e), param, m2)]

\* body(field, msg).trim().isLength({ min: min }).escape()
requiredChain(v, param, msg, min) ==
    LET t == trim(v)
    IN [value |-> escape(t), errors |-> ErrIf(~isLength(t, min), param, msg)]

(***************************************************************************)
(* The Entity Store: each collection is a set of documents with distinct   *)
(* _id.  A query result is a set of documents: findById and findOne give   *)
(* the empty set for null.                                                 *)
(***************************************************************************)
Coll(c) ==
    CASE c = "authors" -> authors
      [] c = "genres" -> genres
      [] c = "books" -> books
      [] c = "bookinstances" -> bookinstances

findById(c, id) == {d \in Coll(c) : d._id = id}

\* Model.find({ field: id }): a path that holds an array matches on membership.
findRef(c, field, id) ==
    IF field = "genre"
    THEN {d \in Coll(c) : \E i \in 1..Len(d.genre) : d.genre[i] = id}
    ELSE {d \in Coll(c) : d[field] = id}

findByName(c, name) == {d \in Coll(c) : d.name = name}

FindById(name, c, id) == [name |-> name, op |-> "findById", coll |-> c, id |-> id]
Find(name, c, field, id) == [name |-> name, op |-> "find", coll |-> c, field |-> field, id |-> id]
FindAll(name, c) == [name |-> name, op |-> "findAll", coll |-> c]
FindPopulated(name, c, id) == [name |-> name, op |-> "findPopulated", coll |-> c, id |-> id]
Count(name, c) == [name |-> name, op |-> "count", coll |-> c, status |-> <<>>]
CountStatus(name, c, st) == [name |-> name, op |-> "count", coll |-> c, status |-> st]
FindOne(name, c, v) == [name |-> name, op |-> "findOne", coll |-> c, value |-> v]
Save(name, c, doc) == [name |-> name, op |-> "save", coll |-> c, doc |-> doc]
FindByIdAndRemove(name, c, id) == [name |-> name, op |-> "findByIdAndRemove", coll |-> c, id |-> id]
FindByIdAndUpdate(name, c, id, doc) == [name |-> name, op |-> "findByIdAndUpdate", coll |-> c, id |-> id, doc |-> doc]

\* The enum of BookInstance.status; a status word is one character of a string.
Statuses == {<<"Available">>, <<"Maintenance">>, <<"Loaned">>, <<"Reserved">>}

\* Schema validation, run by save() only.
validateDoc(c, doc) ==
    CASE c = "authors" -> doc.first_name # <<>> /\ doc.family_name # <<>>
      [] c = "genres" -> doc.name # <<>>
      [] c = "books" ->
            /\ doc.title # <<>> /\ doc.summary # <<>> /\ doc.isbn # <<>>
            /\ doc.author # ""
            /\ \A i \in 1..Len(doc.genre) : doc.genre[i] # ""
      [] c = "bookinstances" ->
            doc.book # "" /\ doc.imprint # <<>> /\ doc.status \in Statuses

\* Whether the store accepts the operation when it is reachable.
accepts(o) == o.op = "save" => validateDoc(o.coll, o.doc)

\* populate(): a reference becomes null ("") when it resolves to nothing, and
\* an array of references keeps the ones that resolve.
populate(c, d) ==
    CASE c = "books" ->
            [d EXCEPT !.author = IF findById("authors", @) = {} THEN "" ELSE @,
                      !.genre = SelectSeq(@, LAMBDA g : findById("genres", g) # {})]
      [] c = "bookinstances" ->
            [_id |-> d._id, imprint |-> d.imprint, status |-> d.status, due_back |-> d.due_back,
             book |-> IF findById("books", d.book) = {} THEN "" ELSE d.book,
             book_title |-> IF findById("books", d.book) = {} THEN <<>>
                            ELSE (CHOOSE b \in findById("books", d.book) : TRUE).title]
      [] OTHER -> d

\* countDocuments(filter): the documents counted; the callback receives their
\* number.
counted(o) ==
    IF o.status = <<>> THEN Coll(o.coll) ELSE {d \in Coll(o.coll) : d.status = o.status}

\* The values the operation's callback can receive: findOne gives any one of
\* the matching documents, the other operations have one outcome.
opValues(o) ==
    CASE o.op = "findById" -> {findById(o.coll, o.id)}
      [] o.op = "find" -> {findRef(o.coll, o.field, o.id)}
      [] o.op = "findPopulated" -> {{populate(o.coll, d) : d \in findById(o.coll, o.id)}}
      [] o.op = "findAll" -> {Coll(o.coll)}
      [] o.op = "count" -> {counted(o)}
      [] o.op = "findOne" ->
            IF findByName(o.coll, o.value) = {} THEN {{}}
            ELSE {{d} : d \in findByName(o.coll, o.value)}
      [] o.op = "save" -> {{o.doc}}
      [] o.op = "findByIdAndRemove" -> {findById(o.coll, o.id)}
      [] o.op = "findByIdAndUpdate" -> {findById(o.coll, o.id)}

\* findByIdAndUpdate(id, doc): the paths set in doc replace the stored ones; a
\* reference that did not cast is not set in doc and keeps its stored value.
mergeUpdate(c, old, doc) ==
    CASE c = "books" ->
            [doc EXCEPT !.author = IF @ = "" THEN old.author ELSE @,
                        !.genre = IF \E i \in 1..Len(@) : @[i] = "" THEN old.genre ELSE @]
      [] c = "bookinstances" -> [doc EXCEPT !.book = IF @ = "" THEN old.book ELSE @]
      [] OTHER -> doc

\* The collection after the operation.
opColl(o) ==
    CASE o.op = "save" -> Coll(o.coll) \cup {o.doc}
      [] o.op = "findByIdAndRemove" -> Coll(o.coll) \ findById(o.coll, o.id)
      [] o.op = "findByIdAndUpdate" ->
            (Coll(o.coll) \ findById(o.coll, o.id))
                \cup {mergeUpdate(o.coll, old, o.doc) : old \in findById(o.coll, o.id)}
      [] OTHER -> Coll(o.coll)

\* The err a failed store operation passes to its callback: its message names
\* the operation and the collection, and it carries no status.
StoreError(o) == [message |-> o.op \o " on " \o o.coll \o " failed", status |-> 0]

\* The err of an operation that succeeded (null).
NoError == [message |-> "", status |-> 0]

Result(name, err, val) == [name |-> name, err |-> err, val |-> val]

(***************************************************************************)
(* Requests and responses                                                  *)
(***************************************************************************)
Slots == {1, 2}

NoDoc == [none |-> TRUE]

Idle ==
    [h |-> "idle", id |-> "", raw |-> NoDoc, body |-> NoDoc, doc |-> NoDoc, errors |-> <<>>,
     pc |-> "done", pending |-> {}, results |-> {}, res |-> <<>>]

\* A request that has run its validator chain: q is the HTTP request (handler,
\* URL identifier, form body as submitted), body the sanitized body, doc the
\* document the handler constructed.
Req(q, body, doc, errors) ==
    [h |-> q.h, id |-> q.id, raw |-> q.body, body |-> body, doc |-> doc, errors |-> errors,
     pc |-> "start", pending |-> {}, results |-> {}, res |-> <<>>]

Render(view, locals) == [kind |-> "render", view |-> view, status |-> 200, locals |-> locals]

Redirect(url) == [kind |-> "redirect", url |-> url]

Throw(what) == [kind |-> "throw", what |-> what]

\* Mutant: the error page is always sent with status 500.
errorHandler_500(err) ==
    [kind |-> "render", view |-> "error", status |-> 500,
     locals |-> [message |-> err.message,
                 error |-> IF env = "development" THEN err ELSE [message |-> "", status |-> 0]]]

\* The error handler of app.js, reached by next(err).
errorHandler(err) ==
    [kind |-> "render", view |-> "error",
     status |-> IF err.status # 0 THEN err.status ELSE 500,
     locals |-> [message |-> err.message,
                 error |-> IF env = "development" THEN err ELSE [message |-> "", status |-> 0]]]

\* The handler ends, having called the response actions acts in this order.
Respond(req, acts) == [req EXCEPT !.pc = "done", !.pending = {}, !.res = @ \o acts]

\* The handler issues the store operations ops and returns; its callback pc
\* runs when they have completed.
Await(req, pc, ops) == [req EXCEPT !.pc = pc, !.pending = ops]

Get(req, name) == (CHOOSE x \in req.results : x.name = name).val

Failed(req) == \E x \in req.results : x.err # NoError

\* The err the callback receives: that of the operation that failed.
ErrorOf(req) == (CHOOSE x \in req.results : x.err # NoError).err

NotFound(message) == [message |-> message, status |-> 404]

url(c, id) == <<"/catalog/", c, "/", id>>

(***************************************************************************)
(* controllers/authorController.js                                         *)
(***************************************************************************)
authorChains(b) ==
    LET fn == nameChain(b.first_name, "first_name", "First name must be specified.",
                        "First name has non-alphanumeric characters.")
        fam == nameChain(b.family_name, "family_name", "Family name must be specified.",
                         "Family name has non-alphanumeric characters.")
        dob == optionalDate(b.date_of_birth, "date_of_birth", "Invalid date of birth")
        dod == optionalDate(b.date_of_death, "date_of_death", "Invalid date of death")
    IN [body |-> [first_name |-> fn.value, family_name |-> fam.value,
                  date_of_birth |-> dob.value, date_of_death |-> dod.value],
        errors |-> fn.errors \o fam.errors \o dob.errors \o dod.errors]

newAuthor(id, b) ==
    [_id |-> id, first_name |-> b.first_name, family_name |-> b.family_name,
     date_of_birth |-> b.date_of_birth, date_of_death |-> b.date_of_death]

\* Mutant: the author is saved whether or not validation failed.
author_create_post_unchecked(q, fresh) ==
    LET v == authorChains(q.body)
        author == newAuthor(fresh, v.body)
    IN Await(Req(q, v.body, author, v.errors), "save", {Save("saved", "authors", author)})

\* Mutant: the redirect is sent as soon as the save is issued.
author_create_post_fireforget(q, fresh) ==
    LET v == authorChains(q.body)
        req == Req(q, v.body, NoDoc, v.errors)
    IN IF v.errors # <<>>
       THEN Respond(req, <<Render("author_form",
                [title |-> "Create Author", author |-> v.body, errors |-> v.errors])>>)
       ELSE LET author == newAuthor(fresh, v.body)
            IN [Await([req EXCEPT !.doc = author], "save", {Save("saved", "authors", author)})
                    EXCEPT !.res = <<Redirect(url("author", fresh))>>]

author_create_post(q, fresh) ==
    LET v == authorChains(q.body)
        req == Req(q, v.body, NoDoc, v.errors)
    IN IF v.errors # <<>>
       THEN Respond(req, <<Render("author_form",
                [title |-> "Create Author", author |-> v.body, errors |-> v.errors])>>)
       ELSE LET author == newAuthor(fresh, v.body)
            IN Await([req EXCEPT !.doc = author], "save", {Save("saved", "authors", author)})

author_create_post_cb(req) ==
    IF Failed(req) THEN Respond(req, <<errorHandler(ErrorOf(req))>>)
    ELSE Respond(req, <<Redirect(url("author", req.doc._id))>>)

author_delete_get(q) ==
    Await(Req(q, q.body, NoDoc, <<>>), "parallel",
          {FindById("author", "authors", q.id), Find("authors_books", "books", "author", q.id)})

author_delete_get_cb(req) ==
    LET view == Render("author_delete", [title |-> "Delete Author",
                    author |-> Get(req, "author"), author_books |-> Get(req, "authors_books")])
    IN IF Failed(req) THEN Respond(req, <<errorHandler(ErrorOf(req))>>)
       ELSE IF Get(req, "author") = {}
            THEN Respond(req, <<Redirect(<<"/catalog/authors">>), view>>)
            ELSE Respond(req, <<view>>)

author_delete_post(q) ==
    Await(Req(q, q.body, NoDoc, <<>>), "parallel",
          {FindById("author", "authors", q.body.authorid),
           Find("authors_books", "books", "author", q.body.authorid)})

author_delete_post_cb(req) ==
    IF Failed(req) THEN Respond(req, <<errorHandler(ErrorOf(req))>>)
    ELSE IF req.pc = "parallel"
    THEN IF Get(req, "authors_books") # {}
         THEN Respond(req, <<Render("author_delete", [title |-> "Delete Author",
                    author |-> Get(req, "author"), author_books |-> Get(req, "authors_books")])>>)
         ELSE Await(req, "remove", {FindByIdAndRemove("removed", "authors", req.body.authorid)})
    ELSE Respond(req, <<Redirect(<<"/catalog/authors">>)>>)

\* Mutant: the update is issued whether or not validation failed.
author_update_post_unchecked(q) ==
    LET v == authorChains(q.body)
        author == newAuthor(q.id, v.body)
        req == Req(q, v.body, author, v.errors)
    IN Await(req, "update", {FindByIdAndUpdate("theauthor", "authors", q.id, author)})

\* Mutant: the candidate is built without the identifier of the URL, so it
\* carries one of its own.
author_update_post_newid(q) ==
    LET v == authorChains(q.body)
        author == newAuthor(ToString(MaxIds + 1), v.body)
        req == Req(q, v.body, author, v.errors)
    IN IF v.errors # <<>>
       THEN Respond(req, <<Render("author_form",
                [title |-> "Update Author", author |-> author, errors |-> v.errors])>>)
       ELSE Await(req, "update", {FindByIdAndUpdate("theauthor", "authors", q.id, author)})

author_update_post(q) ==
    LET v == authorChains(q.body)
        author == newAuthor(q.id, v.body)
        req == Req(q, v.body, author, v.errors)
    IN IF v.errors # <<>>
       THEN Respond(req, <<Render("author_form",
                [title |-> "Update Author", author |-> author, errors |-> v.errors])>>)
       ELSE Await(req, "update", {FindByIdAndUpdate("theauthor", "authors", q.id, author)})

author_update_post_cb(req) ==
    IF Failed(req) THEN Respond(req, <<errorHandler(ErrorOf(req))>>)
    ELSE IF Get(req, "theauthor") = {} THEN Respond(req, <<Throw("TypeError")>>)
    ELSE Respond(req, <<Redirect(url("author", req.id))>>)

(***************************************************************************)
(* controllers/genreController.js                                          *)
(***************************************************************************)
newGenre(id, b) == [_id |-> id, name |-> b.name]

genre_create_post(q, fresh) ==
    LET v == requiredChain(q.body.name, "name", "Genre name required", 1)
        genre == newGenre(fresh, [name |-> v.value])
        req == Req(q, [name |-> v.value], genre, v.errors)
    IN IF v.errors # <<>>
       THEN Respond(req, <<Render("genre_form",
                [title |-> "Create Genre", genre |-> genre, errors |-> v.errors])>>)
       ELSE Await(req, "findOne", {FindOne("found_genre", "genres", v.value)})

\* Mutant: the genre is saved whether or not the name was found.
genre_create_post_cb_nolookup(req) ==
    IF Failed(req) THEN Respond(req, <<errorHandler(ErrorOf(req))>>)
    ELSE IF req.pc = "findOne"
    THEN Await(req, "save", {Save("saved", "genres", req.doc)})
    ELSE Respond(req, <<Redirect(url("genre", req.doc._id))>>)

\* Mutant: after the save the client is sent to the list of genres.
genre_create_post_cb_tolist(req) ==
    IF Failed(req) THEN Respond(req, <<errorHandler(ErrorOf(req))>>)
    ELSE IF req.pc = "findOne"
    THEN IF Get(req, "found_genre") # {}
         THEN Respond(req, <<Redirect(url("genre", (CHOOSE d \in Get(req, "found_genre") : TRUE)._id))>>)
         ELSE Await(req, "save", {Save("saved", "genres", req.doc)})
    ELSE Respond(req, <<Redirect(<<"/catalog/genres">>)>>)

genre_create_post_cb(req) ==
    IF Failed(req) THEN Respond(req, <<errorHandler(ErrorOf(req))>>)
    ELSE IF req.pc = "findOne"
    THEN IF Get(req, "found_genre") # {}
         THEN Respond(req, <<Redirect(url("genre", (CHOOSE d \in Get(req, "found_genre") : TRUE)._id))>>)
         ELSE Await(req, "save", {Save("saved", "genres", req.doc)})
    ELSE Respond(req, <<Redirect(url("genre", req.doc._id))>>)

genre_delete_get(q) ==
    Await(Req(q, q.body, NoDoc, <<>>), "parallel",
          {FindById("genre", "genres", q.id), Find("genre_books", "books", "genre", q.id)})

genre_delete_get_cb(req) ==
    LET view == Render("genre_delete", [title |-> "Delete Genre",
                    genre |-> Get(req, "genre"), genre_books |-> Get(req, "genre_books")])
    IN IF Failed(req) THEN Respond(req, <<errorHandler(ErrorOf(req))>>)
       ELSE IF Get(req, "genre") = {}
            THEN Respond(req, <<Redirect(<<"/catalog/genres">>), view>>)
            ELSE Respond(req, <<view>>)

genre_delete_post(q) ==
    Await(Req(q, q.body, NoDoc, <<>>), "parallel",
          {FindById("genre", "genres", q.id), Find("genre_books", "books", "genre", q.id)})

genre_delete_post_cb(req) ==
    IF Failed(req) THEN Respond(req, <<errorHandler(ErrorOf(req))>>)
    ELSE IF req.pc = "parallel"
    THEN IF Get(req, "genre_books") # {}
         THEN Respond(req, <<Render("genre_delete", [title |-> "Delete Genre",
                    genre |-> Get(req, "genre"), genre_books |-> Get(req, "genre_books")])>>)
         ELSE Await(req, "remove", {FindByIdAndRemove("removed", "genres", req.body.id)})
    ELSE Respond(req, <<Redirect(<<"/catalog/genres">>)>>)

\* Mutant: the update form accepts what the create form accepts.
genre_update_post_min1(q) ==
    LET v == requiredChain(q.body.name, "name", "Genre name must contain at least 3 characters", 1)
        genre == newGenre(q.id, [name |-> v.value])
        req == Req(q, [name |-> v.value], genre, v.errors)
    IN IF v.errors # <<>>
       THEN Respond(req, <<Render("genre_form",
                [title |-> "Update Genre", genre |-> genre, errors |-> v.errors])>>)
       ELSE Await(req, "update", {FindByIdAndUpdate("thegenre", "genres", q.id, genre)})

genre_update_post(q) ==
    LET v == requiredChain(q.body.name, "name", "Genre name must contain at least 3 characters", 3)
        genre == newGenre(q.id, [name |-> v.value])
        req == Req(q, [name |-> v.value], genre, v.errors)
    IN IF v.errors # <<>>
       THEN Respond(req, <<Render("genre_form",
                [title |-> "Update Genre", genre |-> genre, errors |-> v.errors])>>)
       ELSE Await(req, "update", {FindByIdAndUpdate("thegenre", "genres", q.id, genre)})

genre_update_post_cb(req) ==
    IF Failed(req) THEN Respond(req, <<errorHandler(ErrorOf(req))>>)
    ELSE IF Get(req, "thegenre") = {} THEN Respond(req, <<Throw("TypeError")>>)
    ELSE Respond(req, <<Redirect(url("genre", req.id))>>)

(***************************************************************************)
(* controllers/bookController.js                                           *)
(***************************************************************************)
\* The form's genre field: absent, one value, or several.
NoGenre == [t |-> "undefined"]
OneGenre(v) == [t |-> "string", v |-> v]
Genres(vs) == [t |-> "array", v |-> vs]

\* The genre field of a JSON body (express.json() is mounted) that holds the
\* number n.
NumGenre(n) == [t |-> "number", n |-> n]

\* new Array(x): one number argument is the length of an array of empty slots,
\* any other single argument is the only element.
newArray(g) == IF g.t = "number" THEN [i \in 1..g.n |-> Absent] ELSE <<g.v>>

\* The first middleware: req.body.genre becomes an array.
genreToArray(g) ==
    CASE g.t = "array" -> g.v
      [] g.t = "undefined" -> <<>>
      [] OTHER -> newArray(g)

bookChains(b) ==
    LET title == requiredChain(b.title, "title", "Title must not be empty.", 1)
        author == requiredChain(b.author, "author", "Author must not be empty.", 1)
        summary == requiredChain(b.summary, "summary", "Summary must not be empty.", 1)
        isbn == requiredChain(b.isbn, "isbn", "ISBN must not be empty", 1)
        genre == genreToArray(b.genre)
    IN [body |-> [title |-> title.value, author |-> author.value, summary |-> summary.value,
                  isbn |-> isbn.value, genre |-> [i \in 1..Len(genre) |-> escape(genre[i])]],
        errors |-> title.errors \o author.errors \o summary.errors \o isbn.errors]

newBook(id, b) ==
    [_id |-> id, title |-> b.title, author |-> castObjectId(b.author), summary |-> b.summary,
     isbn |-> b.isbn, genre |-> [i \in 1..Len(b.genre) |-> castObjectId(b.genre[i])]]

\* The genres of the store, each marked checked when the book lists it.
checkedGenres(gs, book) ==
    {[_id |-> g._id, name |-> g.name,
      checked |-> \E i \in 1..Len(book.genre) : book.genre[i] = g._id] : g \in gs}

\* views/book_form.pug, the author dropdown: one option per author, selected
\* when its _id is the book's author.
authorOptions(as, book) == {[value |-> a._id, selected |-> a._id = book.author] : a \in as}

\* views/book_form.pug: every author option reads book.author._id, which
\* throws when the book has no author; a view that throws is forwarded to the
\* error handler.
book_form(locals) ==
    IF locals.authors # {} /\ locals.book.author = ""
    THEN errorHandler([message |-> "TypeError", status |-> 0])
    ELSE Render("book_form",
            [k \in DOMAIN locals \cup {"options"} |->
                IF k = "options" THEN authorOptions(locals.authors, locals.book) ELSE locals[k]])

bookFormErrors(req, title) ==
    IF Failed(req) THEN Respond(req, <<errorHandler(ErrorOf(req))>>)
    ELSE Respond(req, <<book_form([title |-> title, authors |-> Get(req, "authors"),
                                   genres |-> checkedGenres(Get(req, "genres"), req.doc),
                                   book |-> req.doc, errors |-> req.errors])>>)

book_create_post(q, fresh) ==
    LET v == bookChains(q.body)
        book == newBook(fresh, v.body)
        req == Req(q, v.body, book, v.errors)
    IN IF v.errors # <<>>
       THEN Await(req, "parallel", {FindAll("authors", "authors"), FindAll("genres", "genres")})
       ELSE Await(req, "save", {Save("saved", "books", book)})

book_create_post_cb(req) ==
    IF req.pc = "parallel" THEN bookFormErrors(req, "Create Book")
    ELSE IF Failed(req) THEN Respond(req, <<errorHandler(ErrorOf(req))>>)
    ELSE Respond(req, <<Redirect(url("book", req.doc._id))>>)

book_delete_get(q) ==
    Await(Req(q, q.body, NoDoc, <<>>), "parallel",
          {FindById("book", "books", q.id),
           Find("book_bookinstances", "bookinstances", "book", q.id)})

book_delete_get_cb(req) ==
    LET view == Render("book_delete", [title |-> "Delete Book",
                    book |-> Get(req, "book"), book_instances |-> Get(req, "book_bookinstances")])
    IN IF Failed(req) THEN Respond(req, <<errorHandler(ErrorOf(req))>>)
       ELSE IF Get(req, "book") = {}
            THEN Respond(req, <<Redirect(<<"/catalog/books">>), view>>)
            ELSE Respond(req, <<view>>)

book_delete_post(q) ==
    Await(Req(q, q.body, NoDoc, <<>>), "parallel",
          {FindById("book", "books", q.body.id),
           Find("book_bookinstances", "bookinstances", "book", q.body.id)})

\* Mutant: the removal is issued although BookInstances reference the book.
book_delete_post_cb_unguarded(req) ==
    IF Failed(req) THEN Respond(req, <<errorHandler(ErrorOf(req))>>)
    ELSE IF req.pc = "parallel"
    THEN Await(req, "remove", {FindByIdAndRemove("removed", "books", req.body.id)})
    ELSE Respond(req, <<Redirect(<<"/catalog/books">>)>>)

book_delete_post_cb(req) ==
    IF Failed(req) THEN Respond(req, <<errorHandler(ErrorOf(req))>>)
    ELSE IF req.pc = "parallel"
    THEN IF Get(req, "book_bookinstances") # {}
         THEN Respond(req, <<Render("book_delete", [title |-> "Delete Book",
                    book |-> Get(req, "book"),
                    book_instances |-> Get(req, "book_bookinstances")])>>)
         ELSE Await(req, "remove", {FindByIdAndRemove("removed", "books", req.body.id)})
    ELSE Respond(req, <<Redirect(<<"/catalog/books">>)>>)

book_update_post(q) ==
    LET v == bookChains(q.body)
        book == newBook(q.id, v.body)
        req == Req(q, v.body, book, v.errors)
    IN IF v.errors # <<>>
       THEN Await(req, "parallel", {FindAll("authors", "authors"), FindAll("genres", "genres")})
       ELSE Await(req, "update", {FindByIdAndUpdate("thebook", "books", q.id, book)})

book_update_post_cb(req) ==
    IF req.pc = "parallel" THEN bookFormErrors(req, "Update Book")
    ELSE IF Failed(req) THEN Respond(req, <<errorHandler(ErrorOf(req))>>)
    ELSE IF Get(req, "thebook") = {} THEN Respond(req, <<Throw("TypeError")>>)
    ELSE Respond(req, <<Redirect(url("book", req.id))>>)

(***************************************************************************)
(* controllers/bookinstanceController.js, models/bookinstance.js           *)
(***************************************************************************)
\* Date.now at the time the document is constructed.
Now == <<"now">>

bookinstanceChains(b) ==
    LET book == requiredChain(b.book, "book", "Book must be specified", 1)
        imprint == requiredChain(b.imprint, "imprint", "Imprint must be specified", 1)
        due == IF b.due_back = Absent THEN [value |-> Absent, errors |-> <<>>]
               ELSE optionalDate(b.due_back, "due_back", "Invalid date")
    IN [body |-> [book |-> book.value, imprint |-> imprint.value,
                  status |-> escape(b.status), due_back |-> due.value],
        errors |-> book.errors \o imprint.errors \o due.errors]

\* new BookInstance(...): the schema's defaults fill the paths left undefined.
newBookInstance(id, b) ==
    [_id |-> id, book |-> castObjectId(b.book), imprint |-> b.imprint, status |-> b.status,
     due_back |-> IF b.due_back = Absent THEN Now ELSE b.due_back]

\* The callback of Book.find on a validation failure: it reads
\* bookinstance.book._id before rendering.
bookinstanceFormErrors(req, title) ==
    IF Failed(req) THEN Respond(req, <<errorHandler(ErrorOf(req))>>)
    ELSE IF req.doc.book = "" THEN Respond(req, <<Throw("TypeError")>>)
    ELSE Respond(req, <<Render("bookinstance_form",
            [title |-> title, book_list |-> Get(req, "books"), selected_book |-> req.doc.book,
             errors |-> req.errors, bookinstance |-> req.doc])>>)

bookinstance_create_post(q, fresh) ==
    LET v == bookinstanceChains(q.body)
        bookinstance == newBookInstance(fresh, v.body)
        req == Req(q, v.body, bookinstance, v.errors)
    IN IF v.errors # <<>>
       THEN Await(req, "books", {FindAll("books", "books")})
       ELSE Await(req, "save", {Save("saved", "bookinstances", bookinstance)})

bookinstance_create_post_cb(req) ==
    IF req.pc = "books" THEN bookinstanceFormErrors(req, "Create BookInstance")
    ELSE IF Failed(req) THEN Respond(req, <<errorHandler(ErrorOf(req))>>)
    ELSE Respond(req, <<Redirect(url("bookinstance", req.doc._id))>>)

bookinstance_delete_get(q) ==
    Await(Req(q, q.body, NoDoc, <<>>), "findById",
          {FindById("bookinstance", "bookinstances", q.id)})

\* Mutant: a missing copy is reported as not found, as the detail page does.
bookinstance_delete_get_cb_404(req) ==
    LET view == Render("bookinstance_delete", [title |-> "Delete BookInstance",
                    bookinstance |-> Get(req, "bookinstance")])
    IN IF Failed(req) THEN Respond(req, <<errorHandler(ErrorOf(req))>>)
       ELSE IF Get(req, "bookinstance") = {}
            THEN Respond(req, <<errorHandler(NotFound("Book copy not found"))>>)
            ELSE Respond(req, <<view>>)

bookinstance_delete_get_cb(req) ==
    LET view == Render("bookinstance_delete", [title |-> "Delete BookInstance",
                    bookinstance |-> Get(req, "bookinstance")])
    IN IF Failed(req) THEN Respond(req, <<errorHandler(ErrorOf(req))>>)
       ELSE IF Get(req, "bookinstance") = {}
            THEN Respond(req, <<Redirect(<<"/catalog/bookinstances">>), view>>)
            ELSE Respond(req, <<view>>)

\* Mutant: the copy is looked up but the removal is never issued.
bookinstance_delete_post_lookup(q) ==
    Await(Req(q, q.body, NoDoc, <<>>), "remove",
          {FindById("removed", "bookinstances", q.body.id)})

bookinstance_delete_post(q) ==
    Await(Req(q, q.body, NoDoc, <<>>), "remove",
          {FindByIdAndRemove("removed", "bookinstances", q.body.id)})

bookinstance_delete_post_cb(req) ==
    IF Failed(req) THEN Respond(req, <<errorHandler(ErrorOf(req))>>)
    ELSE Respond(req, <<Redirect(<<"/catalog/bookinstances">>)>>)

bookinstance_update_post(q) ==
    LET v == bookinstanceChains(q.body)
        bookinstance == newBookInstance(q.id, v.body)
        req == Req(q, v.body, bookinstance, v.errors)
    IN IF v.errors # <<>>
       THEN Await(req, "books", {FindAll("books", "books")})
       ELSE Await(req, "update",
                  {FindByIdAndUpdate("thebookinstance", "bookinstances", q.id, bookinstance)})

bookinstance_update_post_cb(req) ==
    IF req.pc = "books" THEN bookinstanceFormErrors(req, "Update BookInstance")
    ELSE IF Failed(req) THEN Respond(req, <<errorHandler(ErrorOf(req))>>)
    ELSE IF Get(req, "thebookinstance") = {} THEN Respond(req, <<Throw("TypeError")>>)
    ELSE Respond(req, <<Redirect(url("bookinstance", req.id))>>)

(***************************************************************************)
(* The pages that only read: home page, lists, details and the GET forms   *)
(***************************************************************************)
\* A GET request: its only input is the identifier of the URL.
Page(q) == Req(q, q.body, NoDoc, <<>>)

\* The names of the reads that have completed, each with its result.
Completed(req) == {x.name : x \in {y \in req.results : y.err = NoError}}

index(q) ==
    Await(Page(q), "parallel",
          {Count("book_count", "books"), Count("book_instance_count", "bookinstances"),
           CountStatus("book_instance_available_count", "bookinstances", <<"Available">>),
           Count("author_count", "authors"), Count("genre_count", "genres")})

\* The callback renders whether or not err is set, with the results so far.
index_cb(req) ==
    Respond(req, <<Render("index",
        [title |-> "Local Library Home",
         error |-> IF Failed(req) THEN ErrorOf(req) ELSE NoError,
         data |-> [n \in Completed(req) |-> Cardinality(Get(req, n))]])>>)

author_list(q) == Await(Page(q), "find", {FindAll("list_authors", "authors")})

author_list_cb(req) ==
    IF Failed(req) THEN Respond(req, <<errorHandler(ErrorOf(req))>>)
    ELSE Respond(req, <<Render("author_list",
            [title |-> "Author List", author_list |-> Get(req, "list_authors")])>>)

author_detail(q) ==
    Await(Page(q), "parallel",
          {FindById("author", "authors", q.id), Find("authors_books", "books", "author", q.id)})

author_detail_cb(req) ==
    IF Failed(req) THEN Respond(req, <<errorHandler(ErrorOf(req))>>)
    ELSE IF Get(req, "author") = {}
    THEN Respond(req, <<errorHandler(NotFound("Author not found"))>>)
    ELSE Respond(req, <<Render("author_detail", [title |-> "Author Detail",
            author |-> Get(req, "author"), author_books |-> Get(req, "authors_books")])>>)

author_create_get(q) ==
    Respond(Page(q), <<Render("author_form", [title |-> "Create Author"])>>)

author_update_get(q) == Await(Page(q), "findById", {FindById("author", "authors", q.id)})

author_update_get_cb(req) ==
    IF Failed(req) THEN Respond(req, <<errorHandler(ErrorOf(req))>>)
    ELSE IF Get(req, "author") = {}
    THEN Respond(req, <<errorHandler(NotFound("Author not found"))>>)
    ELSE Respond(req, <<Render("author_form",
            [title |-> "Update Author", author |-> Get(req, "author")])>>)

genre_list(q) == Await(Page(q), "find", {FindAll("list_genres", "genres")})

genre_list_cb(req) ==
    IF Failed(req) THEN Respond(req, <<errorHandler(ErrorOf(req))>>)
    ELSE Respond(req, <<Render("genre_list",
            [title |-> "Genre List", list_genres |-> Get(req, "list_genres")])>>)

genre_detail(q) ==
    Await(Page(q), "parallel",
          {FindById("genre", "genres", q.id), Find("genre_books", "books", "genre", q.id)})

genre_detail_cb(req) ==
    IF Failed(req) THEN Respond(req, <<errorHandler(ErrorOf(req))>>)
    ELSE IF Get(req, "genre") = {}
    THEN Respond(req, <<errorHandler(NotFound("Genre not found"))>>)
    ELSE Respond(req, <<Render("genre_detail", [title |-> "Genre Detail",
            genre |-> Get(req, "genre"), genre_books |-> Get(req, "genre_books")])>>)

genre_create_get(q) ==
    Respond(Page(q), <<Render("genre_form", [title |-> "Create Genre"])>>)

genre_update_get(q) == Await(Page(q), "findById", {FindById("genre", "genres", q.id)})

genre_update_get_cb(req) ==
    IF Failed(req) THEN Respond(req, <<errorHandler(ErrorOf(req))>>)
    ELSE IF Get(req, "genre") = {}
    THEN Respond(req, <<errorHandler(NotFound("Genre not found"))>>)
    ELSE Respond(req, <<Render("genre_form",
            [title |-> "Update Genre", genre |-> Get(req, "genre")])>>)

book_list(q) == Await(Page(q), "find", {FindAll("list_books", "books")})

\* The handler is function (req, res): next is not defined in its callback.
book_list_cb(req) ==
    IF Failed(req) THEN Respond(req, <<Throw("ReferenceError")>>)
    ELSE Respond(req, <<Render("book_list",
            [title |-> "Book List", book_list |-> Get(req, "list_books")])>>)

book_detail(q) ==
    Await(Page(q), "parallel",
          {FindPopulated("book", "books", q.id),
           Find("book_instance", "bookinstances", "book", q.id)})

book_detail_cb(req) ==
    IF Failed(req) THEN Respond(req, <<errorHandler(ErrorOf(req))>>)
    ELSE IF Get(req, "book") = {}
    THEN Respond(req, <<errorHandler(NotFound("Book not found"))>>)
    ELSE Respond(req, <<Render("book_detail",
            [title |-> (CHOOSE b \in Get(req, "book") : TRUE).title,
             book |-> Get(req, "book"), book_instances |-> Get(req, "book_instance")])>>)

book_create_get(q) ==
    Await(Page(q), "parallel", {FindAll("authors", "authors"), FindAll("genres", "genres")})

book_create_get_cb(req) ==
    IF Failed(req) THEN Respond(req, <<errorHandler(ErrorOf(req))>>)
    ELSE Respond(req, <<Render("book_form", [title |-> "Create Book",
            authors |-> Get(req, "authors"), genres |-> Get(req, "genres")])>>)

book_update_get(q) ==
    Await(Page(q), "parallel",
          {FindPopulated("book", "books", q.id), FindAll("authors", "authors"),
           FindAll("genres", "genres")})

book_update_get_cb(req) ==
    IF Failed(req) THEN Respond(req, <<errorHandler(ErrorOf(req))>>)
    ELSE IF Get(req, "book") = {}
    THEN Respond(req, <<errorHandler(NotFound("Book not found"))>>)
    ELSE LET book == CHOOSE b \in Get(req, "book") : TRUE
         IN Respond(req, <<book_form([title |-> "Update Book", authors |-> Get(req, "authors"),
                                      genres |-> checkedGenres(Get(req, "genres"), book),
                                      book |-> book])>>)

bookinstance_list(q) ==
    Await(Page(q), "find", {FindAll("list_bookinstances", "bookinstances")})

bookinstance_list_cb(req) ==
    IF Failed(req) THEN Respond(req, <<errorHandler(ErrorOf(req))>>)
    ELSE Respond(req, <<Render("bookinstance_list", [title |-> "Book Instance List",
            bookinstance_list |-> Get(req, "list_bookinstances")])>>)

bookinstance_detail(q) ==
    Await(Page(q), "findById", {FindPopulated("bookinstance", "bookinstances", q.id)})

\* The title reads bookinstance.book.title: the populated book is null when
\* the copy's book resolves to nothing.
bookinstance_detail_cb(req) ==
    IF Failed(req) THEN Respond(req, <<errorHandler(ErrorOf(req))>>)
    ELSE IF Get(req, "bookinstance") = {}
    THEN Respond(req, <<errorHandler(NotFound("Book copy not found"))>>)
    ELSE LET bookinstance == CHOOSE b \in Get(req, "bookinstance") : TRUE
         IN IF bookinstance.book = "" THEN Respond(req, <<Throw("TypeError")>>)
            ELSE Respond(req, <<Render("bookinstance_detail",
                    [title |-> <<"Copy: ">> \o bookinstance.book_title,
                     bookinstance |-> Get(req, "bookinstance")])>>)

bookinstance_create_get(q) == Await(Page(q), "find", {FindAll("books", "books")})

bookinstance_create_get_cb(req) ==
    IF Failed(req) THEN Respond(req, <<errorHandler(ErrorOf(req))>>)
    ELSE Respond(req, <<Render("bookinstance_form",
            [title |-> "Create BookInstance", book_list |-> Get(req, "books")])>>)

bookinstance_update_get(q) ==
    Await(Page(q), "parallel",
          {FindPopulated("bookinstance", "bookinstances", q.id), FindAll("books", "books")})

bookinstance_update_get_cb(req) ==
    IF Failed(req) THEN Respond(req, <<errorHandler(ErrorOf(req))>>)
    ELSE IF Get(req, "bookinstance") = {}
    THEN Respond(req, <<errorHandler(NotFound("Book copy not found"))>>)
    ELSE LET bookinstance == CHOOSE b \in Get(req, "bookinstance") : TRUE
         IN IF bookinstance.book = "" THEN Respond(req, <<Throw("TypeError")>>)
            ELSE Respond(req, <<Render("bookinstance_form",
                    [title |-> "Update  BookInstance", book_list |-> Get(req, "books"),
                     selected_book |-> bookinstance.book,
                     bookinstance |-> Get(req, "bookinstance")])>>)

(***************************************************************************)
(* routes/catalog.js: the handler of each request, and the event loop      *)
(***************************************************************************)
CreateColl ==
    [author_create_post |-> "authors", genre_create_post |-> "genres",
     book_create_post |-> "books", bookinstance_create_post |-> "bookinstances"]

Creates(h) == h \in DOMAIN CreateColl

\* The identifiers new Model() can still draw for collection c: never saved,
\* and not held by a request in flight.
FreshIds(c) ==
    Ids \ (issued[c] \cup {reqs[s].doc._id : s \in {t \in Slots :
                /\ reqs[t].pc # "done" /\ Creates(reqs[t].h) /\ CreateColl[reqs[t].h] = c
                /\ reqs[t].doc # NoDoc}})

\* The synchronous part of the handler of q: its validator chain and its body
\* up to the first store operation.
Begin(q, fresh) ==
    CASE q.h = "author_create_post" -> author_create_post(q, fresh)
      [] q.h = "author_delete_get" -> author_delete_get(q)
      [] q.h = "author_delete_post" -> author_delete_post(q)
      [] q.h = "author_update_post" -> author_update_post(q)
      [] q.h = "genre_create_post" -> genre_create_post(q, fresh)
      [] q.h = "genre_delete_get" -> genre_delete_get(q)
      [] q.h = "genre_delete_post" -> genre_delete_post(q)
      [] q.h = "genre_update_post" -> genre_update_post(q)
      [] q.h = "book_create_post" -> book_create_post(q, fresh)
      [] q.h = "book_delete_get" -> book_delete_get(q)
      [] q.h = "book_delete_post" -> book_delete_post(q)
      [] q.h = "book_update_post" -> book_update_post(q)
      [] q.h = "bookinstance_create_post" -> bookinstance_create_post(q, fresh)
      [] q.h = "bookinstance_delete_get" -> bookinstance_delete_get(q)
      [] q.h = "bookinstance_delete_post" -> bookinstance_delete_post(q)
      [] q.h = "bookinstance_update_post" -> bookinstance_update_post(q)
      [] q.h = "index" -> index(q)
      [] q.h = "author_list" -> author_list(q)
      [] q.h = "author_detail" -> author_detail(q)
      [] q.h = "author_create_get" -> author_create_get(q)
      [] q.h = "author_update_get" -> author_update_get(q)
      [] q.h = "genre_list" -> genre_list(q)
      [] q.h = "genre_detail" -> genre_detail(q)
      [] q.h = "genre_create_get" -> genre_create_get(q)
      [] q.h = "genre_update_get" -> genre_update_get(q)
      [] q.h = "book_list" -> book_list(q)
      [] q.h = "book_detail" -> book_detail(q)
      [] q.h = "book_create_get" -> book_create_get(q)
      [] q.h = "book_update_get" -> book_update_get(q)
      [] q.h = "bookinstance_list" -> bookinstance_list(q)
      [] q.h = "bookinstance_detail" -> bookinstance_detail(q)
      [] q.h = "bookinstance_create_get" -> bookinstance_create_get(q)
      [] q.h = "bookinstance_update_get" -> bookinstance_update_get(q)

\* The callback of the request, run when the operations it waits for have
\* completed or one of them has failed.
Callback(req) ==
    CASE req.h = "author_create_post" -> author_create_post_cb(req)
      [] req.h = "author_delete_get" -> author_delete_get_cb(req)
      [] req.h = "author_delete_post" -> author_delete_post_cb(req)
      [] req.h = "author_update_post" -> author_update_post_cb(req)
      [] req.h = "genre_create_post" -> genre_create_post_cb(req)
      [] req.h = "genre_delete_get" -> genre_delete_get_cb(req)
      [] req.h = "genre_delete_post" -> genre_delete_post_cb(req)
      [] req.h = "genre_update_post" -> genre_update_post_cb(req)
      [] req.h = "book_create_post" -> book_create_post_cb(req)
      [] req.h = "book_delete_get" -> book_delete_get_cb(req)
      [] req.h = "book_delete_post" -> book_delete_post_cb(req)
      [] req.h = "book_update_post" -> book_update_post_cb(req)
      [] req.h = "bookinstance_create_post" -> bookinstance_create_post_cb(req)
      [] req.h = "bookinstance_delete_get" -> bookinstance_delete_get_cb(req)
      [] req.h = "bookinstance_delete_post" -> bookinstance_delete_post_cb(req)
      [] req.h = "bookinstance_update_post" -> bookinstance_update_post_cb(req)
      [] req.h = "index" -> index_cb(req)
      [] req.h = "author_list" -> author_list_cb(req)
      [] req.h = "author_detail" -> author_detail_cb(req)
      [] req.h = "author_update_get" -> author_update_get_cb(req)
      [] req.h = "genre_list" -> genre_list_cb(req)
      [] req.h = "genre_detail" -> genre_detail_cb(req)
      [] req.h = "genre_update_get" -> genre_update_get_cb(req)
      [] req.h = "book_list" -> book_list_cb(req)
      [] req.h = "book_detail" -> book_detail_cb(req)
      [] req.h = "book_create_get" -> book_create_get_cb(req)
      [] req.h = "book_update_get" -> book_update_get_cb(req)
      [] req.h = "bookinstance_list" -> bookinstance_list_cb(req)
      [] req.h = "bookinstance_detail" -> bookinstance_detail_cb(req)
      [] req.h = "bookinstance_create_get" -> bookinstance_create_get_cb(req)
      [] req.h = "bookinstance_update_get" -> bookinstance_update_get_cb(req)

\* The documents saved so far and the create requests in flight.
Allocated ==
    Cardinality(issued.authors) + Cardinality(issued.genres) + Cardinality(issued.books)
    + Cardinality(issued.bookinstances)
    + Cardinality({s \in Slots : reqs[s].pc # "done" /\ Creates(reqs[s].h)})

\* A request arrives on a free slot and runs up to its first store operation.
Start(r, q) ==
    /\ reqs[r].pc = "done"
    /\ Creates(q.h) => FreshIds(CreateColl[q.h]) # {} /\ Allocated < MaxDocs
    /\ LET fresh == IF Creates(q.h) THEN CHOOSE i \in FreshIds(CreateColl[q.h]) : TRUE ELSE ""
       IN reqs' = [reqs EXCEPT ![r] = Begin(q, fresh)]
    /\ UNCHANGED <<authors, genres, books, bookinstances, issued, env>>

\* The store runs operation o of request r (ok: it succeeds, and the callback
\* receives v) and the callback that waits for it runs: async.parallel calls
\* the final callback on the first error, or when every task has completed.
Complete(r, o, ok, v) ==
    LET result == IF ok THEN Result(o.name, NoError, v) ELSE Result(o.name, StoreError(o), {})
        req == [reqs[r] EXCEPT !.pending = @ \ {o}, !.results = @ \cup {result}]
        after(c) == IF ok /\ o.coll = c THEN opColl(o) ELSE Coll(c)
    IN /\ o \in reqs[r].pending
       /\ ok => accepts(o)
       /\ reqs' = [reqs EXCEPT ![r] = IF ~ok \/ req.pending = {} THEN Callback(req) ELSE req]
       /\ authors' = after("authors")
       /\ genres' = after("genres")
       /\ books' = after("books")
       /\ bookinstances' = after("bookinstances")
       /\ issued' = IF ok /\ o.op = "save" THEN [issued EXCEPT ![o.coll] = @ \cup {o.doc._id}]
                    ELSE issued
       /\ UNCHANGED env

NextOf(slots, requests, outcomes) ==
    \E r \in slots :
        \/ \E q \in requests : Start(r, q)
        \/ \E o \in reqs[r].pending, ok \in outcomes : \E v \in opValues(o) : Complete(r, o, ok, v)

InitOf(envs) ==
    /\ authors = {} /\ genres = {} /\ books = {} /\ bookinstances = {}
    /\ issued = [authors |-> {}, genres |-> {}, books |-> {}, bookinstances |-> {}]
    /\ env \in envs
    /\ reqs = [r \in Slots |-> Idle]

(***************************************************************************)
(* The requests of the specifications                                      *)
(***************************************************************************)
Q(h, id, body) == [h |-> h, id |-> id, body |-> body]

AuthorBody(fn, fam, dob, dod) ==
    [first_name |-> fn, family_name |-> fam, date_of_birth |-> dob, date_of_death |-> dod]

BookBody(title, author, genre) ==
    [title |-> title, author |-> author, summary |-> <<"s">>, isbn |-> <<"1">>, genre |-> genre]

BookInstanceBody(book, imprint, status, due) ==
    [book |-> book, imprint |-> imprint, status |-> status, due_back |-> due]

\* Valid submissions that populate the store.
GoodCreates ==
    {Q("author_create_post", "", AuthorBody(<<"a">>, <<"b">>, <<>>, <<>>))}
    \cup {Q("genre_create_post", "", [name |-> n]) : n \in {<<"g">>, <<"h">>}}
    \cup {Q("book_create_post", "", BookBody(<<"t">>, IdStr(a), NoGenre)) : a \in Ids}
    \cup {Q("book_create_post", "", BookBody(<<"t">>, IdStr("1"), OneGenre(IdStr(g)))) : g \in Ids}
    \cup {Q("bookinstance_create_post", "",
            BookInstanceBody(IdStr(b), <<"p">>, <<"Available">>, Absent)) : b \in Ids}

DeleteGets ==
    {Q(h, id, NoDoc) : h \in {"author_delete_get", "genre_delete_get", "book_delete_get",
                             "bookinstance_delete_get"}, id \in Ids}

DeletePosts ==
    {Q("author_delete_post", id, [authorid |-> id]) : id \in Ids}
    \cup {Q("genre_delete_post", id, [id |-> b]) : id \in Ids, b \in Ids}
    \cup {Q(h, id, [id |-> id]) : h \in {"book_delete_post", "bookinstance_delete_post"},
                                   id \in Ids}

GuardRequests == GoodCreates \cup DeleteGets \cup DeletePosts

\* One request at a time: the delete flows on a store filled by valid creates.
GuardInit == InitOf({"development"})

GuardNext == NextOf({1}, GuardRequests, BOOLEAN)

GuardSpec == GuardInit /\ [][GuardNext]_vars

(***************************************************************************)
(* The Referential Guard (GuardSpec)                                       *)
(***************************************************************************)
\* Request r has run the callback of its parallel reads in this step, and
\* no read failed.
Resolved(r, h) ==
    /\ reqs[r].h = h /\ reqs[r].pc = "parallel"
    /\ reqs'[r].pc # "parallel" /\ ~Failed(reqs'[r])

\* The removal issued by request r has been acknowledged in this step.
Removed(r, h) ==
    /\ reqs[r].h = h /\ reqs[r].pc = "remove"
    /\ reqs'[r].pc = "done" /\ ~Failed(reqs'[r])

\* Request r has ended, no store operation of it having failed.
Served(r, h) == reqs[r].h = h /\ reqs[r].pc = "done" /\ ~Failed(reqs[r])

\* C1: an Author delete POST that finds at least one Book referencing the
\* submitted identifier removes nothing, answers with the delete-confirmation
\* view carrying every Book that references the author, and the Author
\* resolves in the store afterwards.
C1_AuthorDeleteBlocked ==
    [][\A r \in Slots :
        (Resolved(r, "author_delete_post") /\ Get(reqs'[r], "authors_books") # {}) =>
            LET id == reqs[r].body.authorid
            IN /\ authors' = authors
               /\ reqs'[r].res = <<Render("author_delete",
                      [title |-> "Delete Author",
                       author |-> {a \in authors' : a._id = id},
                       author_books |-> {b \in books' : b.author = id}])>>
               /\ {a \in authors' : a._id = id} # {}]_vars

\* C2: a Genre delete POST removes only the Genre whose referencing Books it
\* resolved, and only when it found none: no Genre that a Book references is
\* removed, whatever the identifiers in the URL and in the form body.
C2_GenreDeleteGuarded ==
    [][\A r \in Slots :
        (reqs[r].h = "genre_delete_post" /\ reqs[r].pc # "done" /\ reqs'[r] # reqs[r]) =>
            \A g \in genres \ genres' :
                /\ g._id = reqs[r].id
                /\ findRef("books", "genre", g._id) = {}]_vars

\* The delete-confirmation view of the Book id, as the store stands.
BookDeleteView(id) ==
    Render("book_delete", [title |-> "Delete Book", book |-> findById("books", id),
                           book_instances |-> findRef("bookinstances", "book", id)])

\* C3: a Book delete POST that finds at least one BookInstance referencing the
\* submitted identifier removes no Book and answers with the delete-confirmation
\* view of the book and all its referencing BookInstances, the view the delete
\* GET of a Book renders.
C3_BookDeleteBlocked ==
    [][\A r \in Slots :
        /\ (Resolved(r, "book_delete_post") /\ Get(reqs'[r], "book_bookinstances") # {}) =>
                /\ books' = books
                /\ reqs'[r].res = <<BookDeleteView(reqs[r].body.id)>>
        /\ (Resolved(r, "book_delete_get") /\ Get(reqs'[r], "book") # {}) =>
                reqs'[r].res = <<BookDeleteView(reqs[r].id)>>]_vars

C3_Witness ==
    \E r \in Slots :
        /\ Served(r, "book_delete_post")
        /\ reqs[r].res = <<BookDeleteView(reqs[r].body.id)>>
        /\ findById("books", reqs[r].body.id) # {}
        /\ findRef("bookinstances", "book", reqs[r].body.id) # {}

\* C4: every Book in the store references an Author that is in the store.
C4_BookAuthorResolves == \A b \in books : findById("authors", b.author) # {}

\* The list view and the delete-confirmation view of each delete GET, as the
\* store stands.
DeleteGetTarget(h) ==
    CASE h = "author_delete_get" -> "authors"
      [] h = "genre_delete_get" -> "genres"
      [] h = "book_delete_get" -> "books"
      [] h = "bookinstance_delete_get" -> "bookinstances"

DeleteGetView(h, id) ==
    CASE h = "author_delete_get" ->
            Render("author_delete", [title |-> "Delete Author",
                author |-> findById("authors", id),
                author_books |-> findRef("books", "author", id)])
      [] h = "genre_delete_get" ->
            Render("genre_delete", [title |-> "Delete Genre",
                genre |-> findById("genres", id),
                genre_books |-> findRef("books", "genre", id)])
      [] h = "book_delete_get" -> BookDeleteView(id)
      [] h = "bookinstance_delete_get" ->
            Render("bookinstance_delete", [title |-> "Delete BookInstance",
                bookinstance |-> findById("bookinstances", id)])

\* C5: a delete GET whose identifier does not resolve is answered with a
\* redirect to the entity's list view; one whose identifier resolves is
\* answered with the confirmation view of the target and its dependents.
C5_DeleteGet ==
    \A r \in Slots : \A h \in {"author_delete_get", "genre_delete_get", "book_delete_get",
                               "bookinstance_delete_get"} :
        Served(r, h) =>
            IF findById(DeleteGetTarget(h), reqs[r].id) = {}
            THEN Head(reqs[r].res) = Redirect(<<"/catalog/" \o DeleteGetTarget(h)>>)
            ELSE reqs[r].res = <<DeleteGetView(h, reqs[r].id)>>

C5_Witness ==
    \E r \in Slots :
        /\ Served(r, "genre_delete_get")
        /\ findById("genres", reqs[r].id) # {}
        /\ findRef("books", "genre", reqs[r].id) # {}
        /\ reqs[r].res = <<DeleteGetView("genre_delete_get", reqs[r].id)>>

C5_WitnessRedirect ==
    \E r \in Slots :
        /\ Served(r, "bookinstance_delete_get")
        /\ reqs[r].id \in issued.bookinstances
        /\ Head(reqs[r].res) = Redirect(<<"/catalog/bookinstances">>)

\* The identifier a delete POST resolves the dependents of, and its collection.
DeletePostTarget(req) ==
    CASE req.h = "author_delete_post" -> [coll |-> "authors", id |-> req.body.authorid]
      [] req.h = "genre_delete_post" -> [coll |-> "genres", id |-> req.id]
      [] req.h = "book_delete_post" -> [coll |-> "books", id |-> req.body.id]

DeletePostDependents(req) ==
    CASE req.h = "author_delete_post" -> Get(req, "authors_books")
      [] req.h = "genre_delete_post" -> Get(req, "genre_books")
      [] req.h = "book_delete_post" -> Get(req, "book_bookinstances")

CollAfter(c) ==
    CASE c = "authors" -> authors'
      [] c = "genres" -> genres'
      [] c = "books" -> books'
      [] c = "bookinstances" -> bookinstances'

\* C6: a delete POST of an Author, Genre or Book that resolves an empty set of
\* dependents removes the target and answers with a redirect to the list view,
\* and the target does not resolve afterwards; when the target did not resolve
\* before, the store is unchanged and the answer is the same redirect.
C6_DeletePost ==
    [][\A r \in Slots : \A h \in {"author_delete_post", "genre_delete_post", "book_delete_post"} :
        LET t == DeletePostTarget(reqs[r])
        IN /\ (Resolved(r, h) /\ DeletePostDependents(reqs'[r]) = {}) =>
                    reqs'[r].pc = "remove"
           /\ Removed(r, h) =>
                /\ CollAfter(t.coll) = Coll(t.coll) \ findById(t.coll, t.id)
                /\ \A c \in {"authors", "genres", "books", "bookinstances"} \ {t.coll} :
                        CollAfter(c) = Coll(c)
                /\ {d \in CollAfter(t.coll) : d._id = t.id} = {}
                /\ reqs'[r].res = <<Redirect(<<"/catalog/" \o t.coll>>)>>]_vars

\* C7: a BookInstance delete POST whose identifier resolves issues the removal
\* as its only store operation; once acknowledged the instance is gone from
\* the store and the answer is a redirect to the BookInstance list view.
C7_BookInstanceDelete ==
    [][\A r \in Slots :
        LET id == reqs[r].body.id
        IN /\ (reqs'[r].h = "bookinstance_delete_post" /\ reqs'[r].pc # "done") =>
                reqs'[r].pending = {FindByIdAndRemove("removed", "bookinstances", reqs'[r].body.id)}
           /\ (Removed(r, "bookinstance_delete_post") /\ findById("bookinstances", id) # {}) =>
                /\ bookinstances' = bookinstances \ findById("bookinstances", id)
                /\ {d \in bookinstances' : d._id = id} = {}
                /\ reqs'[r].res = <<Redirect(<<"/catalog/bookinstances">>)>>]_vars

C7_Witness ==
    \E r \in Slots :
        /\ Served(r, "bookinstance_delete_post")
        /\ Get(reqs[r], "removed") # {}
        /\ findById("bookinstances", reqs[r].body.id) = {}
        /\ reqs[r].res = <<Redirect(<<"/catalog/bookinstances">>)>>

(***************************************************************************)
(* The create and update forms (FormSpec)                                  *)
(***************************************************************************)
AuthorForms ==
    {Q("author_create_post", "", AuthorBody(fn, <<"b">>, dob, <<>>)) :
        fn \in {<<>>, <<" ">>, <<"a">>, <<"a", "<">>}, dob \in {<<>>, <<"x">>, <<"2", "0", "0", "1">>}}
    \cup {Q("author_update_post", id, AuthorBody(fn, <<"b">>, <<>>, <<>>)) :
        id \in Ids, fn \in {<<>>, <<"c">>}}

GenreForms ==
    {Q("genre_create_post", "", [name |-> n]) :
        n \in {<<>>, <<" ">>, <<"g">>, <<" ", "g">>, <<"<">>}}
    \cup {Q("genre_update_post", id, [name |-> n]) :
        id \in Ids, n \in {<<"g">>, <<"g", "g", "g">>}}

BookForms ==
    {Q("book_create_post", "", BookBody(t, a, g)) :
        t \in {<<>>, <<"t">>}, a \in {<<>>, IdStr("1")}, g \in {NoGenre, OneGenre(IdStr("1"))}}
    \cup {Q("book_update_post", id, BookBody(t, IdStr("1"), NoGenre)) :
        id \in Ids, t \in {<<>>, <<"u">>}}

BookInstanceForms ==
    {Q("bookinstance_create_post", "", BookInstanceBody(b, <<"p">>, <<"Available">>, due)) :
        b \in {<<>>, IdStr("1")}, due \in {Absent, <<"x">>}}
    \cup {Q("bookinstance_update_post", id, BookInstanceBody(IdStr("1"), p, <<"Loaned">>, <<>>)) :
        id \in Ids, p \in {<<>>, <<"p">>}}

FormRequests == AuthorForms \cup GenreForms \cup BookForms \cup BookInstanceForms

\* One request at a time: valid and invalid submissions of the eight forms.
FormInit == InitOf({"development"})

FormNext == NextOf({1}, FormRequests, BOOLEAN)

FormSpec == FormInit /\ [][FormNext]_vars

\* Request r has taken this step.
Acted(r) == reqs'[r] # reqs[r]

\* C8: a create or update POST whose input fails validation leaves the four
\* collections as they were, in every step it takes.
C8_NoPartialPersistence ==
    [][\A r \in Slots :
        (Acted(r) /\ reqs'[r].errors # <<>>) =>
            /\ authors' = authors /\ genres' = genres
            /\ books' = books /\ bookinstances' = bookinstances]_vars

C8_Witness ==
    \E r \in Slots :
        /\ reqs[r].h = "author_update_post" /\ reqs[r].pc = "done"
        /\ reqs[r].errors # <<>>
        /\ findById("authors", reqs[r].id) # {}

AllSpaces(s) == \A i \in 1..Len(s) : s[i] = " "

\* C9: an Author create POST whose first_name is empty or whitespace is
\* answered at once with the author form and an error list holding an error
\* tagged first_name; it issues no store operation and no Author is added.
C9_EmptyFirstName ==
    [][\A r \in Slots :
        (Acted(r) /\ reqs'[r].h = "author_create_post" /\ AllSpaces(reqs'[r].raw.first_name)) =>
            /\ reqs'[r].pc = "done" /\ reqs'[r].pending = {}
            /\ Len(reqs'[r].res) = 1
            /\ reqs'[r].res[1].kind = "render" /\ reqs'[r].res[1].view = "author_form"
            /\ \E i \in 1..Len(reqs'[r].res[1].locals.errors) :
                    reqs'[r].res[1].locals.errors[i].param = "first_name"
            /\ authors' = authors]_vars

C9_Witness ==
    \E r \in Slots :
        /\ reqs[r].h = "author_create_post" /\ reqs[r].raw.first_name = <<" ">>
        /\ reqs[r].pc = "done"
        /\ reqs[r].res[1].view = "author_form"
        /\ authors # {}

\* C10: with one request at a time, a Genre create POST whose name (trimmed and
\* escaped) has length >= 1 looks the name up; if no Genre has it, exactly one
\* Genre with that name is added and the answer redirects to its detail path,
\* which resolves; if a Genre has it, nothing is added and the answer
\* redirects to the detail path of a stored Genre with that name.
C10_GenreCreate ==
    [][\A r \in Slots :
        LET n == reqs'[r].body.name
        IN /\ (Acted(r) /\ reqs[r].pc = "done" /\ reqs'[r].h = "genre_create_post"
                /\ Len(trim(reqs'[r].raw.name)) >= 1) =>
                    /\ reqs'[r].pc = "findOne" /\ genres' = genres
           /\ (reqs[r].h = "genre_create_post" /\ reqs[r].pc = "findOne"
                /\ Acted(r) /\ ~Failed(reqs'[r])) =>
                    /\ genres' = genres
                    /\ IF findByName("genres", n) = {}
                       THEN reqs'[r].pc = "save"
                       ELSE /\ reqs'[r].pc = "done"
                            /\ \E d \in genres : /\ d.name = n
                                                 /\ reqs'[r].res = <<Redirect(url("genre", d._id))>>
           /\ (reqs[r].h = "genre_create_post" /\ reqs[r].pc = "save"
                /\ Acted(r) /\ ~Failed(reqs'[r])) =>
                    \E d \in genres' :
                        /\ d \notin genres /\ genres' = genres \cup {d}
                        /\ d.name = n /\ {x \in genres' : x.name = n} = {d}
                        /\ {x \in genres' : x._id = d._id} = {d}
                        /\ reqs'[r].res = <<Redirect(url("genre", d._id))>>]_vars

C10_Witness ==
    \E r \in Slots :
        /\ Served(r, "genre_create_post")
        /\ reqs[r].raw.name = <<" ", "g">>
        /\ Get(reqs[r], "found_genre") # {}
        /\ \E d \in genres : d.name = <<"g">> /\ reqs[r].res = <<Redirect(url("genre", d._id))>>

(***************************************************************************)
(* Concurrent genre creation (RaceSpec)                                    *)
(***************************************************************************)
\* Submissions of one name, as typed and with a leading space.
RaceRequests == {Q("genre_create_post", "", [name |-> n]) : n \in {<<"g">>, <<" ", "g">>}}

RaceInit == InitOf({"development"})

\* Two requests in flight, their store operations interleaved.
RaceNext == NextOf(Slots, RaceRequests, BOOLEAN)

RaceSpec == RaceInit /\ [][RaceNext]_vars

\* C11: every genre create POST with a valid name whose store operations
\* succeeded, overlapping another one or not, has ended in exactly one response,
\* a redirect to the detail path of a Genre of the store that has the submitted
\* name; the witness is the state the race reaches: both requests redirected,
\* to two different Genres of the same name.
C11_GenreCreateRace ==
    \A r \in Slots :
        (reqs[r].h = "genre_create_post" /\ reqs[r].pc = "done"
           /\ reqs[r].errors = <<>> /\ ~Failed(reqs[r])) =>
            \E g \in genres :
                /\ g.name = reqs[r].body.name
                /\ reqs[r].res = <<Redirect(url("genre", g._id))>>

C11_Witness ==
    /\ \A r \in Slots : /\ reqs[r].h = "genre_create_post" /\ reqs[r].pc = "done"
                         /\ Len(reqs[r].res) = 1 /\ reqs[r].res[1].kind = "redirect"
                         /\ Get(reqs[r], "found_genre") = {}
    /\ reqs[1].res # reqs[2].res
    /\ \E g1, g2 \in genres : g1._id # g2._id /\ g1.name = g2.name

(***************************************************************************)
(* The book form (BookFormSpec)                                            *)
(***************************************************************************)
\* The genre fields submitted: none, one identifier, lists of identifiers in
\* both orders, and a number.
GenreInputs ==
    {NoGenre, OneGenre(IdStr("1")), Genres(<<IdStr("1"), IdStr("2")>>),
     Genres(<<IdStr("2"), IdStr("1")>>)} \cup {NumGenre(n) : n \in 0..MaxIds}

BookFormRequests ==
    {Q("author_create_post", "", AuthorBody(<<"a">>, <<"b">>, <<>>, <<>>)),
     Q("genre_create_post", "", [name |-> <<"g">>])}
    \cup {Q("book_create_post", "", BookBody(t, a, g)) :
            t \in {<<>>, <<"t">>}, a \in {<<>>, IdStr("1")}, g \in GenreInputs}
    \cup {Q("book_update_post", "1", BookBody(t, a, g)) :
            t \in {<<>>, <<"t">>}, a \in {<<>>, IdStr("1")}, g \in GenreInputs}

BookFormInit == InitOf({"development"})

BookFormNext == NextOf({1}, BookFormRequests, BOOLEAN)

BookFormSpec == BookFormInit /\ [][BookFormNext]_vars

\* The step in which request r is received by handler h.
Received(r, h) == reqs[r].pc = "done" /\ reqs'[r].pc # "done" /\ reqs'[r].h = h

\* C12: when a book create or update POST is received, req.body.genre and the
\* candidate's genre are sequences: empty for an absent field, of one element
\* holding the value for a scalar, and with the same elements in the same
\* order for a sequence.
C12_GenreNormalised ==
    [][\A r \in Slots :
        (Received(r, "book_create_post") \/ Received(r, "book_update_post")) =>
            LET g == reqs'[r].raw.genre
                array == reqs'[r].body.genre
                candidate == reqs'[r].doc.genre
            IN /\ Len(array) = Len(candidate)
               /\ g.t = "undefined" => array = <<>> /\ candidate = <<>>
               /\ g.t = "string" => array = <<g.v>> /\ candidate = <<castObjectId(g.v)>>
               /\ g.t = "number" => array = <<<<ToString(g.n)>>>>
               /\ g.t = "array" =>
                    /\ array = g.v
                    /\ candidate = [i \in 1..Len(g.v) |-> castObjectId(g.v[i])]]_vars

\* C13: when the reads of a book create or update POST that failed validation
\* have completed, the response is the book form with the errors, the
\* candidate, every Author and Genre of the store, the submitted author
\* selected, and a Genre checked exactly when the candidate lists it.
C13_BookFormRerender ==
    [][\A r \in Slots :
        (/\ reqs[r].h \in {"book_create_post", "book_update_post"}
         /\ reqs[r].pc = "parallel" /\ reqs'[r].pc = "done" /\ ~Failed(reqs'[r])) =>
            /\ reqs[r].errors # <<>>
            /\ Len(reqs'[r].res) = 1
            /\ LET out == reqs'[r].res[1]
                   book == reqs[r].doc
               IN /\ out.kind = "render" /\ out.view = "book_form"
                  /\ out.locals.errors = reqs[r].errors
                  /\ out.locals.book = book
                  /\ out.locals.authors = authors
                  /\ {x._id : x \in out.locals.genres} = {x._id : x \in genres}
                  /\ \A x \in out.locals.genres :
                        x.checked <=> \E i \in 1..Len(book.genre) : book.genre[i] = x._id
                  /\ \A a \in authors : \E o \in out.locals.options :
                        /\ o.value = a._id
                        /\ o.selected <=> reqs[r].body.author = IdStr(a._id)]_vars

(***************************************************************************)
(* Validation failures of the eight forms (FormSpec)                       *)
(***************************************************************************)
\* The view each create or update POST renders when validation fails.
FormView ==
    [author_create_post |-> "author_form", author_update_post |-> "author_form",
     genre_create_post |-> "genre_form", genre_update_post |-> "genre_form",
     book_create_post |-> "book_form", book_update_post |-> "book_form",
     bookinstance_create_post |-> "bookinstance_form",
     bookinstance_update_post |-> "bookinstance_form"]

\* C14: a create or update POST whose input failed validation and whose reads
\* succeeded has ended in one response, the form of its entity rendered with
\* the non-empty error list; a BookInstance submission with an empty book
\* carries the 'Book must be specified' error and selected_book.
C14_ValidationHandled ==
    \A r \in Slots :
        (/\ reqs[r].h \in DOMAIN FormView /\ reqs[r].pc = "done"
         /\ reqs[r].errors # <<>> /\ ~Failed(reqs[r])) =>
            /\ Len(reqs[r].res) = 1
            /\ reqs[r].res[1].kind = "render"
            /\ reqs[r].res[1].view = FormView[reqs[r].h]
            /\ reqs[r].res[1].locals.errors = reqs[r].errors
            /\ (FormView[reqs[r].h] = "bookinstance_form" /\ trim(reqs[r].raw.book) = <<>>) =>
                    /\ \E i \in 1..Len(reqs[r].errors) :
                            reqs[r].errors[i] = Err("book", "Book must be specified")
                    /\ reqs[r].res[1].locals.selected_book = reqs[r].doc.book

(***************************************************************************)
(* The pages that only read (PageSpec)                                     *)
(***************************************************************************)
ListPages ==
    {"index", "author_list", "genre_list", "book_list", "bookinstance_list",
     "author_create_get", "genre_create_get", "book_create_get", "bookinstance_create_get"}

DetailPages == {"author_detail", "genre_detail", "book_detail", "bookinstance_detail"}

UpdatePages ==
    {"author_update_get", "genre_update_get", "book_update_get", "bookinstance_update_get"}

\* One valid create per entity, then every GET page on every identifier.
PageRequests ==
    {Q("author_create_post", "", AuthorBody(<<"a">>, <<"b">>, <<>>, <<>>)),
     Q("genre_create_post", "", [name |-> <<"g">>]),
     Q("book_create_post", "", BookBody(<<"t">>, IdStr("1"), NoGenre)),
     Q("bookinstance_create_post", "",
        BookInstanceBody(IdStr("1"), <<"p">>, <<"Available">>, Absent))}
    \cup {Q(h, "", NoDoc) : h \in ListPages}
    \cup {Q(h, id, NoDoc) : h \in DetailPages \cup UpdatePages, id \in Ids}

PageInit == InitOf({"development", "production"})

PageNext == NextOf({1}, PageRequests, BOOLEAN)

PageSpec == PageInit /\ [][PageNext]_vars

\* C15: a request one of whose store operations failed has been forwarded
\* with that error to the error handler, and that is its only response: the
\* handler rendered no view and issued no redirect.
C15_StoreFailureForwarded ==
    \A r \in Slots :
        (reqs[r].pc = "done" /\ Failed(reqs[r])) =>
            reqs[r].res = <<errorHandler(ErrorOf(reqs[r]))>>

(***************************************************************************)
(* The error handler of app.js (ErrorSpec)                                 *)
(***************************************************************************)
\* Pages that end in the error handler: on an empty store every detail page
\* is not found, and every read can fail.
ErrorRequests ==
    {Q(h, "1", NoDoc) : h \in DetailPages}
    \cup {Q(h, "", NoDoc) : h \in {"author_list", "genre_list"}}

ErrorInit == InitOf({"development", "production"})

\* Two requests, so that two error responses can be compared.
ErrorNext == NextOf(Slots, ErrorRequests, BOOLEAN)

ErrorSpec == ErrorInit /\ [][ErrorNext]_vars

\* The requests that have ended in the error handler's response.
Errored == {r \in Slots : reqs[r].pc = "done" /\ Len(reqs[r].res) = 1
                                /\ reqs[r].res[1].kind = "render"
                                /\ reqs[r].res[1].view = "error"}

\* C16: outside development, two error responses of the same status carry
\* the same locals (message and error), whatever the errors were.
C16_NoLeak ==
    env # "development" =>
        \A r1, r2 \in Errored :
            reqs[r1].res[1].status = reqs[r2].res[1].status =>
                reqs[r1].res[1].locals = reqs[r2].res[1].locals

(***************************************************************************)
(* Detail pages (PageSpec)                                                 *)
(***************************************************************************)
\* The name under which each detail page reads its entity.
DetailKey ==
    [author_detail |-> "author", genre_detail |-> "genre", book_detail |-> "book",
     bookinstance_detail |-> "bookinstance"]

\* Detail page r has ended, its reads succeeded and its identifier resolved
\* to no document.
Unresolved(r) ==
    /\ reqs[r].h \in DOMAIN DetailKey /\ reqs[r].pc = "done" /\ ~Failed(reqs[r])
    /\ Get(reqs[r], DetailKey[reqs[r].h]) = {}

\* C17: a detail GET whose identifier resolves to no document has one
\* response, the error page with status 404, and not the detail view; an
\* error page sent for a store error, which carries no status, has status 500.
C17_DetailNotFound ==
    \A r \in Slots :
        /\ Unresolved(r) =>
                /\ Len(reqs[r].res) = 1
                /\ reqs[r].res[1].kind = "render" /\ reqs[r].res[1].view = "error"
                /\ reqs[r].res[1].status = 404
        /\ (r \in Errored /\ Failed(reqs[r])) =>
                ErrorOf(reqs[r]).status = 0 /\ reqs[r].res[1].status = 500

C17_Witness ==
    \E r \in Slots :
        /\ Unresolved(r) /\ reqs[r].h = "bookinstance_detail"
        /\ reqs[r].res[1].status = 404 /\ books # {}

(***************************************************************************)
(* Writes and redirects (WriteSpec)                                        *)
(***************************************************************************)
WriteOps == {"save", "findByIdAndRemove", "findByIdAndUpdate"}

\* The POST handlers that write to the store.
Writers ==
    {"author_create_post", "author_update_post", "author_delete_post",
     "genre_create_post", "genre_update_post", "genre_delete_post",
     "book_create_post", "book_update_post", "book_delete_post",
     "bookinstance_create_post", "bookinstance_update_post", "bookinstance_delete_post"}

\* Valid submissions: one create and one update per entity, and the deletes.
WriteRequests ==
    {Q("author_create_post", "", AuthorBody(<<"a">>, <<"b">>, <<>>, <<>>)),
     Q("genre_create_post", "", [name |-> <<"g">>]),
     Q("book_create_post", "", BookBody(<<"t">>, IdStr("1"), NoGenre)),
     Q("bookinstance_create_post", "",
        BookInstanceBody(IdStr("1"), <<"p">>, <<"Available">>, Absent))}
    \cup {Q("author_update_post", id, AuthorBody(<<"c">>, <<"d">>, <<>>, <<>>)) : id \in Ids}
    \cup {Q("genre_update_post", id, [name |-> <<"g", "g", "g">>]) : id \in Ids}
    \cup {Q("book_update_post", id, BookBody(<<"u">>, IdStr("1"), NoGenre)) : id \in Ids}
    \cup {Q("bookinstance_update_post", id,
              BookInstanceBody(IdStr("1"), <<"q">>, <<"Loaned">>, Absent)) : id \in Ids}
    \cup {Q("author_delete_post", id, [authorid |-> id]) : id \in Ids}
    \cup {Q(h, id, [id |-> id]) :
            h \in {"genre_delete_post", "book_delete_post", "bookinstance_delete_post"},
            id \in Ids}

WriteInit == InitOf({"development"})

WriteNext == NextOf({1}, WriteRequests, BOOLEAN)

WriteSpec == WriteInit /\ [][WriteNext]_vars

\* The writes request req is waiting for, and those the store has acknowledged.
PendingWrites(req) == {o \in req.pending : o.op \in WriteOps}

Acknowledged(req) == {x \in req.results : x.name \in {"saved", "removed", "theauthor",
                            "thegenre", "thebook", "thebookinstance"} /\ x.err = NoError}

HasRedirect(req) == \E i \in 1..Len(req.res) : req.res[i].kind = "redirect"

\* C18: in the create, update and delete POST handlers a redirect is issued
\* in the step in which the store acknowledges the request's write (or, for a
\* genre that already exists, after the lookup, no write being issued at
\* all); a request that has responded has no write pending.
C18_WriteBeforeRedirect ==
    [][\A r \in Slots :
        reqs'[r].h \in Writers =>
            /\ reqs'[r].res # <<>> => PendingWrites(reqs'[r]) = {}
            /\ (HasRedirect(reqs'[r]) /\ ~(reqs[r].h = reqs'[r].h /\ HasRedirect(reqs[r]))) =>
                    \/ /\ PendingWrites(reqs[r]) # {}
                       /\ Acknowledged(reqs'[r]) # {}
                       /\ reqs'[r].pending = {}
                    \/ /\ reqs'[r].h = "genre_create_post"
                       /\ Get(reqs'[r], "found_genre") # {}
                       /\ genres' = genres]_vars

C18_Witness ==
    \E r \in Slots :
        /\ reqs[r].h = "book_update_post" /\ reqs[r].pc = "done"
        /\ reqs[r].res = <<Redirect(url("book", reqs[r].id))>>
        /\ \E b \in books : b._id = reqs[r].id /\ b.title = <<"u">>

(***************************************************************************)
(* async.parallel, the Query Aggregator (PageSpec)                         *)
(***************************************************************************)
\* The names of the reads of the group: those still running and those done.
Named(req) == {o.name : o \in req.pending} \cup {x.name : x \in req.results}

\* C19: a handler that groups reads dispatches them all before any result
\* is there; it issues no response while reads are running; its continuation
\* runs once, on the last read to finish with the result of every named read,
\* or on the first read to fail, and then its only response is the error
\* handler's, which uses no results.
C19_QueryAggregator ==
    [][\A r \in Slots :
        /\ (reqs[r].pc = "done" /\ reqs'[r].pc = "parallel") =>
                /\ Cardinality(reqs'[r].pending) >= 2
                /\ \A o \in reqs'[r].pending : o.op \notin WriteOps
                /\ reqs'[r].results = {}
        /\ reqs'[r].pc = "parallel" => reqs'[r].res = <<>>
        /\ (reqs[r].pc = "parallel" /\ reqs'[r].pc = "parallel") =>
                /\ Named(reqs'[r]) = Named(reqs[r])
                /\ ~Failed(reqs'[r])
        /\ (reqs[r].pc = "parallel" /\ reqs'[r].pc # "parallel" /\ ~Failed(reqs'[r])) =>
                /\ Cardinality(reqs[r].pending) = 1
                /\ {x.name : x \in reqs'[r].results} = Named(reqs[r])
        /\ (reqs[r].pc = "parallel" /\ Failed(reqs'[r])) =>
                /\ reqs'[r].pc = "done" /\ reqs'[r].pending = {}
                /\ Cardinality({x \in reqs'[r].results : x.err # NoError}) = 1
                /\ reqs'[r].res = <<errorHandler(ErrorOf(reqs'[r]))>>
        /\ (reqs[r].pc \notin {"done", "parallel"}) => reqs'[r].pc # "parallel"]_vars

(***************************************************************************)
(* The create flow (FormSpec)                                              *)
(***************************************************************************)
\* The entity whose detail path a create POST redirects to.
CreateEntity ==
    [author_create_post |-> "author", genre_create_post |-> "genre",
     book_create_post |-> "book", bookinstance_create_post |-> "bookinstance"]

\* The three terminal outcomes of the create flow.
FormWithErrors(req) ==
    /\ req.errors # <<>>
    /\ req.res[1].kind = "render" /\ req.res[1].view = FormView[req.h]
    /\ req.res[1].locals.errors = req.errors

RedirectToCreated(req) ==
    /\ req.errors = <<>>
    /\ \E x \in req.results : x.name = "saved" /\ x.err = NoError /\ x.val = {req.doc}
    /\ req.res[1] = Redirect(url(CreateEntity[req.h], req.doc._id))

PropagateError(req) == Failed(req) /\ req.res[1] = errorHandler(ErrorOf(req))

\* C20: a create POST that has ended has exactly one response, which is one
\* of the three terminal outcomes of the create flow: the form with the
\* errors, the redirect to the entity it has just persisted, or the error
\* handler's response to a failed store operation.
C20_CreateFlow ==
    \A r \in Slots :
        (reqs[r].h \in DOMAIN CreateEntity /\ reqs[r].pc = "done") =>
            /\ Len(reqs[r].res) = 1
            /\ \/ FormWithErrors(reqs[r])
               \/ RedirectToCreated(reqs[r])
               \/ PropagateError(reqs[r])

(***************************************************************************)
(* The due date of a new copy (DueSpec)                                    *)
(***************************************************************************)
\* The due_back field as it can arrive: not submitted, submitted empty (the
\* form's date input left blank), a date, or text that is no date.
DueInputs == {Absent, <<>>, <<"2", "0", "0", "1">>, <<"x">>}

DueRequests ==
    {Q("bookinstance_create_post", "", BookInstanceBody(IdStr("1"), p, st, due)) :
        p \in {<<"p">>, <<"q">>}, st \in {<<"Available">>, <<"Loaned">>}, due \in DueInputs}

DueInit == InitOf({"development"})

DueNext == NextOf({1}, DueRequests, BOOLEAN)

DueSpec == DueInit /\ [][DueNext]_vars

\* The submission of request req carries no due_back value.
NoDueBack(req) == req.raw.due_back = Absent \/ req.raw.due_back = <<>>

\* C21: a BookInstance create POST with valid book and imprint and no due_back
\* value has no validation error, and the document its save persists has a
\* due_back equal to the creation timestamp.
C21_DueBackDefault ==
    [][\A r \in Slots :
        (reqs'[r].h = "bookinstance_create_post" /\ Acted(r) /\ NoDueBack(reqs'[r])) =>
            /\ reqs'[r].errors = <<>>
            /\ (reqs[r].pc = "save" /\ ~Failed(reqs'[r])) =>
                    \E d \in bookinstances' \ bookinstances :
                        /\ d._id = reqs[r].doc._id
                        /\ d.due_back = Now]_vars

(***************************************************************************)
(* The status of a copy (StatusSpec)                                       *)
(***************************************************************************)
\* The status field: two values of the enum and one word outside it, which
\* the validator chain only escapes.
StatusInputs == {<<"Available">>, <<"Loaned">>, <<"Lost">>}

StatusRequests ==
    {Q("bookinstance_create_post", "", BookInstanceBody(IdStr("1"), <<"p">>, st, Absent)) :
        st \in StatusInputs}
    \cup {Q("bookinstance_update_post", id, BookInstanceBody(IdStr("1"), <<"q">>, st, Absent)) :
            id \in Ids, st \in StatusInputs}

StatusInit == InitOf({"development"})

StatusNext == NextOf({1}, StatusRequests, BOOLEAN)

StatusSpec == StatusInit /\ [][StatusNext]_vars

\* C22: every persisted BookInstance has a status of the enumerated domain.
C22_StatusInDomain == \A d \in bookinstances : d.status \in Statuses

(***************************************************************************)
(* Concurrent updates of one entity (UpdateRaceSpec)                       *)
(***************************************************************************)
\* The collection each update POST writes to, and the entity of its path.
UpdateColl ==
    [author_update_post |-> "authors", genre_update_post |-> "genres",
     book_update_post |-> "books", bookinstance_update_post |-> "bookinstances"]

UpdateEntity ==
    [author_update_post |-> "author", genre_update_post |-> "genre",
     book_update_post |-> "book", bookinstance_update_post |-> "bookinstance"]

\* One create per entity and, for each entity, two submissions that pass
\* validation and differ in every field, all for identifier "1"; the second
\* Book submission names its author by a word that is no ObjectId.
UpdateRaceRequests ==
    {Q("author_create_post", "", AuthorBody(<<"a">>, <<"b">>, <<>>, <<>>)),
     Q("genre_create_post", "", [name |-> <<"g">>]),
     Q("book_create_post", "", BookBody(<<"t">>, IdStr("1"), NoGenre)),
     Q("author_update_post", "1", AuthorBody(<<"c">>, <<"d">>, <<>>, <<>>)),
     Q("author_update_post", "1", AuthorBody(<<"e">>, <<"e">>, <<"2", "0", "0", "1">>, <<>>)),
     Q("genre_update_post", "1", [name |-> <<"g", "g", "g">>]),
     Q("genre_update_post", "1", [name |-> <<"e", "e", "e">>]),
     Q("book_update_post", "1", BookBody(<<"u">>, IdStr("2"), OneGenre(IdStr("1")))),
     Q("book_update_post", "1", BookBody(<<"e">>, <<"x">>, NoGenre))}

UpdateRaceInit == InitOf({"development"})

\* Two requests in flight, their writes applied in either order.
UpdateRaceNext == NextOf(Slots, UpdateRaceRequests, BOOLEAN)

UpdateRaceSpec == UpdateRaceInit /\ [][UpdateRaceNext]_vars

\* The store acknowledges in this step the write of update request r, whose
\* identifier resolved.
Updated(r) ==
    /\ reqs[r].h \in DOMAIN UpdateColl /\ reqs[r].pc = "update"
    /\ reqs'[r].pc = "done" /\ ~Failed(reqs'[r])
    /\ findById(UpdateColl[reqs[r].h], reqs[r].id) # {}

\* C23: an update POST with valid input for an existing entity, overlapping
\* another one or not, ends in a redirect to the entity's detail path, and when
\* its write is applied the stored document equals its candidate, field for
\* field: after two concurrent updates the document is the candidate of the
\* write applied last.
C23_LastWriteWins ==
    [][\A r \in Slots :
        Updated(r) =>
            /\ reqs'[r].res = <<Redirect(url(UpdateEntity[reqs[r].h], reqs[r].id))>>
            /\ {d \in CollAfter(UpdateColl[reqs[r].h]) : d._id = reqs[r].id} = {reqs[r].doc}]_vars

(***************************************************************************)
(* The genre name in the two forms (NameSpec)                              *)
(***************************************************************************)
\* Names of trimmed length 0, 1, 2, 3 and 4, with and without surrounding
\* spaces and characters that escape() lengthens.
NameInputs ==
    {<<>>, <<" ">>, <<"g">>, <<"<">>, <<" ", "g", " ">>, <<"g", "g">>, <<"g", "<">>,
     <<"g", "g", "g">>, <<" ", "<", "g", "g">>, <<"g", "g", "g", "g">>}

NameRequests ==
    {Q("genre_create_post", "", [name |-> n]) : n \in NameInputs}
    \cup {Q("genre_update_post", id, [name |-> n]) : id \in Ids, n \in NameInputs}

NameInit == InitOf({"development"})

NameNext == NextOf({1}, NameRequests, BOOLEAN)

NameSpec == NameInit /\ [][NameNext]_vars

\* Request r is rejected in this step: its only response is the genre form
\* with a non-empty error list whose entries are tagged name, and it issues no
\* store operation.
NameRejected(r) ==
    /\ reqs'[r].pc = "done" /\ reqs'[r].pending = {}
    /\ reqs'[r].errors # <<>>
    /\ \A i \in 1..Len(reqs'[r].errors) : reqs'[r].errors[i].param = "name"
    /\ Len(reqs'[r].res) = 1
    /\ reqs'[r].res[1].kind = "render" /\ reqs'[r].res[1].view = "genre_form"
    /\ reqs'[r].res[1].locals.errors = reqs'[r].errors

\* Request r is accepted in this step: no validation error, and the handler
\* goes on to the store with the trimmed and escaped name.
NameAccepted(r) ==
    /\ reqs'[r].errors = <<>> /\ reqs'[r].res = <<>>
    /\ reqs'[r].pc \in {"findOne", "update"}
    /\ reqs'[r].body.name = escape(trim(reqs'[r].raw.name))

\* C24: after trimming, the empty name is rejected by the Genre create POST
\* and by the Genre update POST, a name of length 1 or 2 is accepted by the
\* create POST and rejected by the update POST with an error tagged name, and
\* a name of length 3 or more is accepted by both.
C24_GenreNameLength ==
    [][\A r \in Slots :
        (reqs[r].pc = "done" /\ Acted(r)
           /\ reqs'[r].h \in {"genre_create_post", "genre_update_post"}) =>
            LET n == Len(trim(reqs'[r].raw.name))
            IN /\ n = 0 => NameRejected(r)
               /\ n \in {1, 2} => IF reqs'[r].h = "genre_create_post"
                                  THEN NameAccepted(r) ELSE NameRejected(r)
               /\ n >= 3 => NameAccepted(r)]_vars

\* A name of length 2 that the create POST has stored is rejected by the
\* update POST of the same Genre.
C24_Witness ==
    \E r \in Slots :
        /\ reqs[r].h = "genre_update_post" /\ reqs[r].pc = "done"
        /\ trim(reqs[r].raw.name) = <<"g", "g">>
        /\ reqs[r].res[1].view = "genre_form"
        /\ \E g \in genres : g._id = reqs[r].id /\ g.name = <<"g", "g">>

(***************************************************************************)
(* One response per request (GuardSpec)                                    *)
(***************************************************************************)
\* C25: a request that has ended has performed exactly one response action,
\* a render, a redirect or the error handler's response: never two, and never
\* none.
C25_OneResponse ==
    \A r \in Slots :
        (reqs[r].h # "idle" /\ reqs[r].pc = "done") =>
            /\ Len(reqs[r].res) = 1
            /\ reqs[r].res[1].kind \in {"render", "redirect"}

(***************************************************************************)
(* Updates of a missing document (WriteSpec)                               *)
(***************************************************************************)
\* The store acknowledges in this step the write of update request r, whose
\* identifier resolved to nothing.
UpdatedNothing(r) ==
    /\ reqs[r].h \in DOMAIN UpdateColl /\ reqs[r].pc = "update"
    /\ reqs'[r].pc = "done" /\ ~Failed(reqs'[r])
    /\ findById(UpdateColl[reqs[r].h], reqs[r].id) = {}

\* C26: an update POST with valid input whose identifier resolves to no
\* document leaves the four collections unchanged and ends in one response,
\* the error handler's.
C26_UpdateMissing ==
    [][\A r \in Slots :
        UpdatedNothing(r) =>
            /\ authors' = authors /\ genres' = genres
            /\ books' = books /\ bookinstances' = bookinstances
            /\ Len(reqs'[r].res) = 1
            /\ reqs'[r].res[1].kind = "render" /\ reqs'[r].res[1].view = "error"]_vars

(***************************************************************************)
(* The frame of an update (FormSpec)                                       *)
(***************************************************************************)
IdsOf(docs) == {d._id : d \in docs}

Others(docs, id) == {d \in docs : d._id # id}

\* C27: in every step of an update POST, whatever its input and whether or
\* not its identifier resolves, each collection keeps its set of identifiers
\* and every document whose identifier is not the one of the URL; the
\* collections the handler does not write to are unchanged, and a document
\* written by the update has the identifier of the URL.
C27_UpdateFrame ==
    [][\A r \in Slots :
        (reqs'[r].h \in DOMAIN UpdateColl /\ Acted(r)) =>
            \A c \in {"authors", "genres", "books", "bookinstances"} :
                /\ IdsOf(CollAfter(c)) = IdsOf(Coll(c))
                /\ Others(CollAfter(c), reqs'[r].id) = Others(Coll(c), reqs'[r].id)
                /\ c # UpdateColl[reqs'[r].h] => CollAfter(c) = Coll(c)
                /\ \A d \in CollAfter(c) \ Coll(c) : d._id = reqs'[r].id]_vars

\* An update has rewritten the Author of its URL while another Author stands
\* as it was created.
C27_Witness ==
    \E r \in Slots :
        /\ reqs[r].h = "author_update_post" /\ reqs[r].pc = "done"
        /\ reqs[r].res = <<Redirect(url("author", reqs[r].id))>>
        /\ \E a, b \in authors :
            /\ a._id = reqs[r].id /\ a.first_name = <<"c">>
            /\ b._id # reqs[r].id /\ b.first_name = <<"a">>

(***************************************************************************)
(* The book of a copy (CopySpec)                                           *)
(***************************************************************************)
\* A Book, copies of it created and updated, the Book's delete POST and the
\* detail page of the copies.
CopyRequests ==
    {Q("book_create_post", "", BookBody(<<"t">>, IdStr("1"), NoGenre))}
    \cup {Q("bookinstance_create_post", "",
              BookInstanceBody(IdStr(b), <<"p">>, <<"Available">>, Absent)) : b \in Ids}
    \cup {Q("bookinstance_update_post", id,
              BookInstanceBody(IdStr("1"), <<"q">>, <<"Loaned">>, Absent)) : id \in Ids}
    \cup {Q("book_delete_post", id, [id |-> id]) : id \in Ids}
    \cup {Q("bookinstance_detail", id, NoDoc) : id \in Ids}

CopyInit == InitOf({"development"})

\* Two requests in flight: a copy can be created while its Book is deleted.
CopyNext == NextOf(Slots, CopyRequests, BOOLEAN)

CopySpec == CopyInit /\ [][CopyNext]_vars

\* C28: every BookInstance of the store references a Book of the store, and a
\* BookInstance detail GET whose identifier resolved has rendered the detail
\* view.
C28_CopyBookResolves ==
    /\ \A c \in bookinstances : findById("books", c.book) # {}
    /\ \A r \in Slots :
        (/\ reqs[r].h = "bookinstance_detail" /\ reqs[r].pc = "done" /\ ~Failed(reqs[r])
         /\ Get(reqs[r], "bookinstance") # {}) =>
            /\ Len(reqs[r].res) = 1
            /\ reqs[r].res[1].kind = "render"
            /\ reqs[r].res[1].view = "bookinstance_detail"

(***************************************************************************)
(* Genre names, one request at a time (DupSpec)                            *)
(***************************************************************************)
\* Two names that both forms accept, submitted to the create POST and to the
\* update POST of every Genre, and the delete POST of every Genre.
DupNames == {<<"g", "g", "g">>, <<"h", "h", "h">>}

DupRequests ==
    {Q("genre_create_post", "", [name |-> n]) : n \in DupNames}
    \cup {Q("genre_update_post", id, [name |-> n]) : id \in Ids, n \in DupNames}
    \cup {Q("genre_delete_post", id, [id |-> id]) : id \in Ids}

DupInit == InitOf({"development"})

\* One slot: a request starts when the previous one has ended.
DupNext == NextOf({1}, DupRequests, BOOLEAN)

DupSpec == DupInit /\ [][DupNext]_vars

\* C29: no two Genre documents of the store have the same name.
C29_GenreNamesDistinct ==
    \A g1, g2 \in genres : g1.name = g2.name => g1._id = g2._id

(***************************************************************************)
(* The counts of the home page (CountSpec)                                 *)
(***************************************************************************)
\* The home page.
CountPages == {Q("index", "", NoDoc)}

\* Copies created, updated and deleted while the page is being built.
CountWrites ==
    {Q("bookinstance_create_post", "",
        BookInstanceBody(IdStr("1"), <<"p">>, <<"Available">>, Absent))}
    \cup {Q("bookinstance_update_post", id,
              BookInstanceBody(IdStr("1"), <<"p">>, <<"Loaned">>, Absent)) : id \in Ids}
    \cup {Q("bookinstance_delete_post", id, [id |-> id]) : id \in Ids}

CountInit == InitOf({"development"})

\* One page and one write in flight: the write's store operation runs
\* between the count queries of the page.
CountNext == NextOf({1}, CountPages, BOOLEAN) \/ NextOf({2}, CountWrites, BOOLEAN)

CountSpec == CountInit /\ [][CountNext]_vars

\* C30: in every home page rendered from the results of its five count
\* queries, the count of available BookInstances is at most the count of all
\* BookInstances.
C30_CountsConsistent ==
    \A r \in Slots :
        (reqs[r].h = "index" /\ reqs[r].pc = "done" /\ ~Failed(reqs[r])) =>
            /\ Len(reqs[r].res) = 1 /\ reqs[r].res[1].view = "index"
            /\ reqs[r].res[1].locals.data.book_instance_available_count
                    <= reqs[r].res[1].locals.data.book_instance_count
====
